---- MODULE Spec2Model ----
(***************************************************************************)
(* kube-pod-dumper: the watch-to-commit pipeline of main.py.               *)
(*                                                                         *)
(* A WatcherThread puts (event_type, pod) notifications on a queue.Queue,  *)
(* a HandlerThread gets them one at a time and mirrors each into a file    *)
(* <namespace>/<name>.yaml of a git working tree, followed by              *)
(* `git add -A` and `git commit`.  main() waits for either thread to       *)
(* terminate.                                                              *)
(***************************************************************************)
EXTENDS FiniteSets, Integers, Sequences, TLC

(* ----------------------------- bounds --------------------------------- *)

\* total number of notifications the watcher generates in one run
MaxEvents == 4
\* number of file and git operations that fail in one run
MaxFaults == 1

(* ------------------------- program constants -------------------------- *)

\* queue.Queue() is built without maxsize: 0 means "infinite"
QueueMaxSize == 0
\* exit status of git on success
GitOk == 0
\* exit status the handler tolerates from `git commit`
GitNothingToCommit == 1
\* exit status of git when it dies (lock held, bad object, no identity...)
GitFatal == 128

(* ------------------------------ values -------------------------------- *)

\* Python's None for object-valued attributes
None == [none |-> TRUE]
\* Python's None for string-valued attributes
NoneStr == "None"

ADDED == "ADDED"
MODIFIED == "MODIFIED"
DELETED == "DELETED"
DONE_INITIAL == "DONE_INITIAL"

\* identities (namespace, name) of the pods of the modelled cluster
Ids == {<<"ns1", "a">>, <<"ns2", "b">>}

MkPod(id, mf, s) ==
  [metadata |-> [namespace |-> id[1], name |-> id[2], managedFields |-> mf],
   spec |-> s]

\* the successive states of the pod of identity id, oldest first: the
\* third differs from the second in managedFields only
VersionsOf(id) ==
  IF id = <<"ns1", "a">>
  THEN <<MkPod(id, NoneStr, "s1"), MkPod(id, NoneStr, "s2"), MkPod(id, "mf1", "s2")>>
  ELSE <<MkPod(id, "mf1", "s1")>>

\* the pods the API server can report for identity id
PodsOf(id) == {VersionsOf(id)[i] : i \in DOMAIN VersionsOf(id)}
Pods == UNION {PodsOf(id) : id \in Ids}

\* objects the API can deliver that lack usable metadata
MalformedPods ==
  {[metadata |-> None, spec |-> "s1"]}

IdOf(pod) == <<pod.metadata.namespace, pod.metadata.name>>

Notification(t, pod) == [type |-> t, pod |-> pod]
DoneInitial == Notification(DONE_INITIAL, None)

(* --------------------------- pure functions --------------------------- *)

\* `del d[k]` on a dict that has the key
DictDel(d, k) == [j \in DOMAIN d \ {k} |-> d[j]]

\* api_client.sanitize_for_serialization(pod): the pod as a dict, the
\* attributes that are None left out
SanitizeForSerialization(pod) ==
  LET md == pod.metadata
      keys == {k \in DOMAIN md : md[k] # NoneStr}
  IN  [metadata |-> [k \in keys |-> md[k]], spec |-> pod.spec]

\* clean_manifest that deletes nothing
clean_manifest_keep(manifest) == manifest

\* clean_manifest: del manifest['metadata']['managedFields'], a KeyError
\* is swallowed
clean_manifest(manifest) ==
  IF "metadata" \in DOMAIN manifest
     /\ "managedFields" \in DOMAIN manifest.metadata
  THEN [manifest EXCEPT !.metadata = DictDel(manifest.metadata, "managedFields")]
  ELSE manifest

\* yaml.dump sorts the keys of every mapping
MetadataKeyOrder == <<"managedFields", "name", "namespace">>

RECURSIVE DumpKeys(_, _)
DumpKeys(d, keys) ==
  IF keys = << >> THEN << >>
  ELSE LET k == Head(keys)
       IN  (IF k \in DOMAIN d THEN << <<"  " \o k, d[k]>> >> ELSE << >>)
           \o DumpKeys(d, Tail(keys))

\* yaml.dump(manifest, f): the text as a sequence of <<key, value>> lines
YamlDump(manifest) ==
  << <<"metadata", "">> >> \o DumpKeys(manifest.metadata, MetadataKeyOrder)
  \o << <<"spec", manifest.spec>> >>

\* the text handle_update writes for a pod
Snapshot(pod) == YamlDump(clean_manifest(SanitizeForSerialization(pod)))

\* FilePath that leaves the namespace directory out
FilePathFlat(pod) == <<"", pod.metadata.name \o ".yaml">>

\* os.path.join(repo_path, namespace, name + '.yaml'), relative to repo_path
FilePath(pod) == <<pod.metadata.namespace, pod.metadata.name \o ".yaml">>
PathOf(id) == <<id[1], id[2] \o ".yaml">>

\* f'{event_type.name} {pod.metadata.namespace}/{pod.metadata.name}'
CommitMessage(t, pod) ==
  t \o " " \o pod.metadata.namespace \o "/" \o pod.metadata.name

\* pod.metadata.namespace / pod.metadata.name raises AttributeError
RaisesAttributeError(pod) == pod = None \/ pod.metadata = None

\* os.path.join(.., None, ..) and None + '.yaml' raise TypeError
RaisesTypeError(pod) ==
  pod.metadata.namespace = NoneStr \/ pod.metadata.name = NoneStr

\* what a dump that failed part-way can have left in the file: nothing, or
\* all but the last line
PartialTexts(text) == {SubSeq(text, 1, k) : k \in {0, Len(text) - 1}}

\* a working tree, index or commit tree: path -> text, for the files present
WriteFile(tree, path, text) ==
  [p \in DOMAIN tree \cup {path} |-> IF p = path THEN text ELSE tree[p]]
RemoveFile(tree, path) == [p \in DOMAIN tree \ {path} |-> tree[p]]

\* paths at which two trees differ
ChangedPaths(t1, t2) ==
  {p \in DOMAIN t1 \cup DOMAIN t2 :
     ~(p \in DOMAIN t1 /\ p \in DOMAIN t2 /\ t1[p] = t2[p])}

\* subprocess.run(cmd, check=True) raises CalledProcessError
RunGitRaises(rc) == rc # GitOk

\* CommitErrorTolerated of a handler that re-raises every CalledProcessError
CommitErrorNeverTolerated(rc) == FALSE

\* `if err.returncode != 1: raise err`
CommitErrorTolerated(rc) == rc = GitNothingToCommit

\* QueueFull for a queue built with maxsize=1
QueueFullBounded(q) == Len(q) >= 1

\* queue.Queue.put blocks while the queue is full
QueueFull(q) == QueueMaxSize > 0 /\ Len(q) >= QueueMaxSize

(* ------------------------------- state -------------------------------- *)

VARIABLES
  cluster,    \* the pods of the cluster: id -> pod, for the ids that exist
  wpc,        \* KubeWatcher: "list" (about to list), "stream", "dead"
  pending,    \* notifications the KubeWatcher generator has yet to yield
  queue,      \* q = queue.Queue()
  hpc,        \* HandlerThread: "get", "handle", "add", "commit", "except", "dead"
  cur,        \* (event_type, pod) the handler holds
  tree,       \* files of the working tree under repo_path
  index,      \* the git index
  head,       \* the tree of the last commit
  commits,    \* the commit log, oldest first
  faults,     \* number of file and git operations that have failed
  exited,     \* the process has terminated
  att,        \* what the handling in progress has done so far
  enqueued,   \* history: every notification put on the queue
  started,    \* history: every notification got from the queue
  results,    \* history: one record per notification whose handling ended
  syncs,      \* history: the ids of every full listing
  initTree    \* history: the working tree at start-up

watcherVars == <<cluster, wpc, pending, syncs>>
storeVars == <<tree, index, head, commits>>
handlerVars == <<hpc, cur, att, started, results>>
vars == <<cluster, wpc, pending, queue, hpc, cur, tree, index, head,
          commits, faults, exited, att, enqueued, started, results, syncs,
          initTree>>

\* one more file or git operation may fail
CanFault == faults < MaxFaults

\* the record of a handling that has just got its notification
StartAttempt(t, n) ==
  [staged |-> FALSE, rc |-> -1, dirty |-> FALSE, raised |-> FALSE,
   treeBefore |-> t, nBefore |-> n]

\* the pods whose snapshot an earlier run can have left in the repository
StalePods == {MkPod(<<"ns1", "a">>, NoneStr, "s1")}

\* the working trees the process can find at start-up
InitTrees ==
  {[p \in {FilePath(pod) : pod \in ps} |->
      Snapshot(CHOOSE pod \in ps : FilePath(pod) = p)] : ps \in SUBSET StalePods}

\* the commit log of a repository whose committed tree is t: the commits
\* of the earlier run that left the files of t
InitCommits(t) ==
  IF DOMAIN t = {} THEN << >>
  ELSE << [message |-> CommitMessage(ADDED, CHOOSE pod \in StalePods : TRUE),
           paths |-> DOMAIN t] >>

\* the states the cluster can be in
Clusters ==
  {c \in UNION {[ids -> Pods] : ids \in SUBSET Ids} :
     \A id \in DOMAIN c : c[id] \in PodsOf(id)}

\* the states the cluster can be in when the process starts
InitClusters ==
  {c \in Clusters : \A id \in DOMAIN c : c[id] = VersionsOf(id)[1]}

\* init_repo leaves an existing repository as it is and creates an empty
\* one otherwise; main() then builds the queue and starts both threads
Init ==
  /\ cluster \in InitClusters
  /\ wpc = "list"
  /\ pending = << >>
  /\ queue = << >>
  /\ hpc = "get"
  /\ cur = DoneInitial
  /\ tree \in InitTrees
  /\ index = tree
  /\ head = tree
  /\ commits = InitCommits(tree)
  /\ faults = 0
  /\ exited = FALSE
  /\ att = StartAttempt(tree, Len(commits))
  /\ enqueued = << >>
  /\ started = << >>
  /\ results = << >>
  /\ syncs = << >>
  /\ initTree = tree

(* ------------------------------ cluster ------------------------------- *)

\* the pods of a full listing, in listing order
RECURSIVE ListingOf(_, _)
ListingOf(c, ids) ==
  IF ids = {} THEN << >>
  ELSE LET id == CHOOSE i \in ids : TRUE
       IN  (IF id \in DOMAIN c THEN <<Notification(ADDED, c[id])>> ELSE << >>)
           \o ListingOf(c, ids \ {id})

\* q is the state that follows p in the life of a pod
IsNextVersion(p, q) ==
  \E i \in DOMAIN VersionsOf(IdOf(p)) :
    /\ i + 1 \in DOMAIN VersionsOf(IdOf(p))
    /\ VersionsOf(IdOf(p))[i] = p /\ VersionsOf(IdOf(p))[i + 1] = q

\* the change of the cluster a watch event reports
ChangeEvents(c) ==
  {Notification(ADDED, p) :
     p \in {q \in Pods : IdOf(q) \notin DOMAIN c /\ q = VersionsOf(IdOf(q))[1]}}
  \cup {Notification(MODIFIED, p) :
          p \in {q \in Pods : IdOf(q) \in DOMAIN c /\ IsNextVersion(c[IdOf(q)], q)}}
  \cup {Notification(DELETED, c[id]) : id \in DOMAIN c}

ApplyChange(c, ev) ==
  IF ev.type = DELETED
  THEN [i \in DOMAIN c \ {IdOf(ev.pod)} |-> c[i]]
  ELSE [i \in DOMAIN c \cup {IdOf(ev.pod)} |->
          IF i = IdOf(ev.pod) THEN ev.pod ELSE c[i]]

(* ------------------------------ watcher ------------------------------- *)

\* KubeWatcher, step 1 and 2: full listing, an ADDED per item, DONE_INITIAL
WatcherList ==
  /\ ~exited /\ wpc = "list"
  /\ LET l == ListingOf(cluster, Ids)
     IN  /\ Len(enqueued) + Len(l) + 1 <= MaxEvents
         /\ pending' = l \o <<DoneInitial>>
  /\ wpc' = "stream"
  /\ syncs' = Append(syncs, DOMAIN cluster)
  /\ UNCHANGED <<cluster, queue, faults, exited, enqueued, initTree>>
  /\ UNCHANGED handlerVars /\ UNCHANGED storeVars

\* self.queue.put((event_type, pod)): blocks while the queue is full
Put(n) ==
  /\ ~QueueFull(queue)
  /\ queue' = Append(queue, n)
  /\ enqueued' = Append(enqueued, n)

\* for event_type, pod in KubeWatcher(...): self.queue.put((event_type, pod))
\* for the next item of the listing or its DONE_INITIAL
WatcherPut ==
  /\ ~exited /\ wpc = "stream"
  /\ pending # << >>
  /\ Put(Head(pending))
  /\ pending' = Tail(pending)
  /\ UNCHANGED <<cluster, wpc, syncs, faults, exited, initTree>>
  /\ UNCHANGED handlerVars /\ UNCHANGED storeVars

\* the states the cluster can be in when the watcher lists it again: as it
\* was, or with one pod created, changed or deleted in the gap
GapClusters(c) == {c} \cup {ApplyChange(c, ev) : ev \in ChangeEvents(c)}

\* the notifications the open watch stream can deliver next: the change
\* of a pod (step 3), or an object without usable metadata
WatchEvents(c) ==
  ChangeEvents(c)
  \cup {Notification(MODIFIED, pod) : pod \in MalformedPods}

\* the same loop, for an event of the watch stream: cluster is the state of
\* the cluster at the resource version the watcher has reached
WatcherWatch ==
  /\ ~exited /\ wpc = "stream"
  /\ pending = << >>
  /\ Len(enqueued) < MaxEvents
  /\ \E ev \in WatchEvents(cluster) :
       /\ cluster' = IF ev.pod \in MalformedPods THEN cluster
                     ELSE ApplyChange(cluster, ev)
       /\ Put(ev)
  /\ UNCHANGED <<wpc, pending, syncs, faults, exited, initTree>>
  /\ UNCHANGED handlerVars /\ UNCHANGED storeVars

\* step 4: the stream ends (disconnect, version too old) and the watcher
\* restarts from the full listing; the changes of the cluster made in the
\* gap are reported by no event
WatchInterrupt ==
  /\ ~exited /\ wpc = "stream"
  /\ pending = << >>
  /\ cluster' \in {c \in GapClusters(cluster) :
                     Len(enqueued) + Cardinality(DOMAIN c) + 1 <= MaxEvents}
  /\ wpc' = "list"
  /\ UNCHANGED <<pending, syncs, queue, faults, exited, enqueued, initTree>>
  /\ UNCHANGED handlerVars /\ UNCHANGED storeVars

\* step 5: the listing call fails with an unrecoverable connection error,
\* which ends WatcherThread
WatcherFail ==
  /\ ~exited /\ wpc = "list"
  /\ wpc' = "dead"
  /\ pending' = << >>
  /\ UNCHANGED <<cluster, syncs, queue, faults, exited, enqueued, initTree>>
  /\ UNCHANGED handlerVars /\ UNCHANGED storeVars

(* ------------------------------ handler ------------------------------- *)

\* the record of a handling that has ended
Result(n, a, ok, t, c) ==
  [n |-> n, ok |-> ok, staged |-> a.staged, rc |-> a.rc, dirty |-> a.dirty,
   treeBefore |-> a.treeBefore, treeAfter |-> t,
   nBefore |-> a.nBefore, nAfter |-> Len(c)]

\* HandlerGet on a queue that hands out its newest item first
HandlerGetLifo ==
  /\ ~exited /\ hpc = "get"
  /\ queue # << >>
  /\ cur' = queue[Len(queue)]
  /\ queue' = SubSeq(queue, 1, Len(queue) - 1)
  /\ started' = Append(started, queue[Len(queue)])
  /\ att' = StartAttempt(tree, Len(commits))
  /\ hpc' = "handle"
  /\ UNCHANGED <<results, faults, exited, enqueued, initTree>>
  /\ UNCHANGED watcherVars /\ UNCHANGED storeVars

\* event_type, pod = self.queue.get()
HandlerGet ==
  /\ ~exited /\ hpc = "get"
  /\ queue # << >>
  /\ cur' = Head(queue)
  /\ queue' = Tail(queue)
  /\ started' = Append(started, Head(queue))
  /\ att' = StartAttempt(tree, Len(commits))
  /\ hpc' = "handle"
  /\ UNCHANGED <<results, faults, exited, enqueued, initTree>>
  /\ UNCHANGED watcherVars /\ UNCHANGED storeVars

\* handle() returns: back to the top of the `while True` loop
Returns(a, t, c) ==
  /\ hpc' = "get"
  /\ results' = Append(results, Result(cur, a, TRUE, t, c))

\* handle() raises: control goes to the `except Exception` clause
Raises ==
  /\ hpc' = "except"
  /\ results' = results

\* HandleUpdate that leaves a file that is already there as it is
HandleUpdateNoOverwrite(path, pod) ==
  /\ faults' = faults
  /\ tree' = IF path \in DOMAIN tree THEN tree
             ELSE WriteFile(tree, path, Snapshot(pod))
  /\ hpc' = "add" /\ results' = results

\* handle_update(file_path, pod)
HandleUpdate(path, pod) ==
  \/ \* os.makedirs, sanitize_for_serialization or open() fails
     /\ CanFault /\ faults' = faults + 1
     /\ tree' = tree
     /\ Raises
  \/ \* open() has truncated the file, yaml.dump fails part-way
     /\ CanFault /\ faults' = faults + 1
     /\ \E text \in PartialTexts(Snapshot(pod)) :
          tree' = WriteFile(tree, path, text)
     /\ Raises
  \/ \* no failure: the directory is there, the file holds the dump
     /\ faults' = faults
     /\ tree' = WriteFile(tree, path, Snapshot(pod))
     /\ hpc' = "add" /\ results' = results

\* HandleDelete that removes nothing
HandleDeleteKeep(path, pod) ==
  /\ faults' = faults
  /\ tree' = tree
  /\ IF path \in DOMAIN tree
     THEN hpc' = "add" /\ results' = results
     ELSE Raises

\* handle_delete(file_path, pod): os.remove(file_path)
HandleDelete(path, pod) ==
  \/ \* os.remove fails on a file that is there
     /\ CanFault /\ faults' = faults + 1
     /\ path \in DOMAIN tree
     /\ tree' = tree
     /\ Raises
  \/ /\ faults' = faults
     /\ IF path \in DOMAIN tree
        THEN /\ tree' = RemoveFile(tree, path)
             /\ hpc' = "add" /\ results' = results
        ELSE \* FileNotFoundError
             /\ tree' = tree
             /\ Raises

\* HandlerHandle without the early return on DONE_INITIAL
HandlerHandleNoSentinel ==
  /\ ~exited /\ hpc = "handle"
  /\ IF RaisesAttributeError(cur.pod) \/ RaisesTypeError(cur.pod)
     THEN /\ Raises
          /\ UNCHANGED <<tree, faults>>
     ELSE IF cur.type \in {ADDED, MODIFIED}
     THEN HandleUpdate(FilePath(cur.pod), cur.pod)
     ELSE IF cur.type = DELETED
     THEN HandleDelete(FilePath(cur.pod), cur.pod)
     ELSE /\ hpc' = "add" /\ results' = results
          /\ UNCHANGED <<tree, faults>>
  /\ att' = [att EXCEPT !.raised = (hpc' = "except")]
  /\ UNCHANGED <<cur, started, index, head, commits, queue, exited, enqueued,
                 initTree>>
  /\ UNCHANGED watcherVars

\* handle(), up to the call of run_git('add', '-A')
HandlerHandle ==
  /\ ~exited /\ hpc = "handle"
  /\ IF cur.type = DONE_INITIAL
     THEN /\ Returns(att, tree, commits)
          /\ UNCHANGED <<tree, faults>>
     ELSE IF RaisesAttributeError(cur.pod) \/ RaisesTypeError(cur.pod)
     THEN /\ Raises
          /\ UNCHANGED <<tree, faults>>
     ELSE IF cur.type \in {ADDED, MODIFIED}
     THEN HandleUpdate(FilePath(cur.pod), cur.pod)
     ELSE IF cur.type = DELETED
     THEN HandleDelete(FilePath(cur.pod), cur.pod)
     ELSE /\ hpc' = "add" /\ results' = results
          /\ UNCHANGED <<tree, faults>>
  /\ att' = [att EXCEPT !.raised = (hpc' = "except")]
  /\ UNCHANGED <<cur, started, index, head, commits, queue, exited, enqueued,
                 initTree>>
  /\ UNCHANGED watcherVars

\* exit statuses `git add -A` can end with
GitAddStatuses == {GitOk} \cup (IF CanFault THEN {GitFatal} ELSE {})

\* run_git(self.repo_path, 'add', '-A')
HandlerAdd ==
  /\ ~exited /\ hpc = "add"
  /\ \E rc \in GitAddStatuses :
       /\ faults' = IF rc = GitOk THEN faults ELSE faults + 1
       /\ IF RunGitRaises(rc)
          THEN /\ index' = index
               /\ att' = [att EXCEPT !.raised = TRUE]
               /\ hpc' = "except"
          ELSE /\ index' = tree
               /\ att' = [att EXCEPT !.staged = TRUE]
               /\ hpc' = "commit"
  /\ UNCHANGED <<cur, started, results, tree, head, commits, queue,
                 exited, enqueued, initTree>>
  /\ UNCHANGED watcherVars

\* exit statuses `git commit -m` can end with: 0 when it records a commit,
\* 1 when there is nothing to commit or when it aborts before recording
\* (a hook rejects the commit), 128 when it dies
GitCommitStatuses ==
  (IF index = head THEN {GitNothingToCommit} ELSE {GitOk})
  \cup (IF CanFault THEN {GitNothingToCommit, GitFatal} ELSE {})

\* HandlerCommit with `git commit --amend`: the new commit replaces the last
HandlerCommitAmend ==
  /\ ~exited /\ hpc = "commit"
  /\ \E rc \in GitCommitStatuses :
       /\ faults' = IF rc = GitOk \/ (rc = GitNothingToCommit /\ index = head)
                    THEN faults ELSE faults + 1
       /\ att' = [att EXCEPT !.rc = rc, !.dirty = (index # head),
                             !.raised = RunGitRaises(rc) /\ ~CommitErrorTolerated(rc)]
       /\ IF rc = GitOk
          THEN /\ head' = index
               /\ commits' =
                    LET c == [message |-> CommitMessage(cur.type, cur.pod),
                              paths |-> ChangedPaths(head, index)]
                    IN  IF commits = << >> THEN <<c>>
                        ELSE [commits EXCEPT ![Len(commits)] = c]
          ELSE UNCHANGED <<head, commits>>
       /\ IF RunGitRaises(rc) /\ ~CommitErrorTolerated(rc)
          THEN Raises
          ELSE Returns(att', tree, commits')
  /\ UNCHANGED <<cur, started, tree, index, queue, exited, enqueued,
                 initTree>>
  /\ UNCHANGED watcherVars

\* try: run_git(.., 'commit', '-m', ..) except CalledProcessError ...
HandlerCommit ==
  /\ ~exited /\ hpc = "commit"
  /\ \E rc \in GitCommitStatuses :
       /\ faults' = IF rc = GitOk \/ (rc = GitNothingToCommit /\ index = head)
                    THEN faults ELSE faults + 1
       /\ att' = [att EXCEPT !.rc = rc, !.dirty = (index # head),
                             !.raised = RunGitRaises(rc) /\ ~CommitErrorTolerated(rc)]
       /\ IF rc = GitOk
          THEN /\ head' = index
               /\ commits' = Append(commits,
                    [message |-> CommitMessage(cur.type, cur.pod),
                     paths |-> ChangedPaths(head, index)])
          ELSE UNCHANGED <<head, commits>>
       /\ IF RunGitRaises(rc) /\ ~CommitErrorTolerated(rc)
          THEN Raises
          ELSE Returns(att', tree, commits')
  /\ UNCHANGED <<cur, started, tree, index, queue, exited, enqueued,
                 initTree>>
  /\ UNCHANGED watcherVars

\* except Exception: log.exception('Failed to handle %s on pod %s/%s', ...)
HandlerExcept ==
  /\ ~exited /\ hpc = "except"
  /\ IF RaisesAttributeError(cur.pod)
     THEN \* the arguments of log.exception raise inside the handler
          /\ hpc' = "dead"
          /\ results' = results
     ELSE /\ hpc' = "get"
          /\ results' = Append(results, Result(cur, att, FALSE, tree, commits))
  /\ UNCHANGED <<cur, att, started, queue, faults, exited, enqueued, initTree>>
  /\ UNCHANGED watcherVars /\ UNCHANGED storeVars

(* ------------------------------- main --------------------------------- *)

\* SupervisedThreadGroup.wait_any() returns once a thread has terminated
WaitAnyReturns == wpc = "dead" \/ hpc = "dead"

\* Main that joins the watcher thread only
MainJoinWatcher ==
  /\ ~exited
  /\ wpc = "dead"
  /\ exited' = TRUE
  /\ UNCHANGED <<queue, faults, enqueued, initTree>>
  /\ UNCHANGED watcherVars /\ UNCHANGED handlerVars /\ UNCHANGED storeVars

\* threads.wait_any() returns, main() returns and the process ends
Main ==
  /\ ~exited
  /\ WaitAnyReturns
  /\ exited' = TRUE
  /\ UNCHANGED <<queue, faults, enqueued, initTree>>
  /\ UNCHANGED watcherVars /\ UNCHANGED handlerVars /\ UNCHANGED storeVars

Next ==
  \/ WatcherList
  \/ WatcherPut
  \/ WatcherWatch
  \/ WatchInterrupt
  \/ WatcherFail
  \/ HandlerGet
  \/ HandlerHandle
  \/ HandlerAdd
  \/ HandlerCommit
  \/ HandlerExcept
  \/ Main

Spec == Init /\ [][Next]_vars

\* start-up on an empty repository, against a cluster without pods
FairInit == Init /\ cluster = << >> /\ tree = << >>

\* the main thread, blocked in wait_any(), is woken when a thread ends
FairSpec == FairInit /\ [][Next]_vars /\ WF_vars(Main)

\* the steps of HandlerThread.run_supervised
HandlerThread ==
  HandlerGet \/ HandlerHandle \/ HandlerAdd \/ HandlerCommit \/ HandlerExcept

\* the handler thread is scheduled whenever it can take a step, and every
\* file and git call it makes returns
HandlerFairSpec == FairInit /\ [][Next]_vars /\ WF_vars(HandlerThread)

(* ----------------------------- properties ----------------------------- *)

IsPrefix(s, t) == Len(s) <= Len(t) /\ \A i \in 1..Len(s) : s[i] = t[i]

\* the notifications whose handling has ended, in order
Handled == [i \in 1..Len(results) |-> results[i].n]

\* the notification names the identity id
IsFor(n, id) ==
  /\ n.type # DONE_INITIAL
  /\ ~RaisesAttributeError(n.pod)
  /\ IdOf(n.pod) = id

\* positions of results that hold a notification for id
PositionsOf(id) == {i \in 1..Len(results) : IsFor(results[i].n, id)}
UpdatesOf(id) ==
  {i \in PositionsOf(id) : results[i].n.type \in {ADDED, MODIFIED}}

Max(S) == CHOOSE m \in S : \A k \in S : k <= m

\* the handler is between two notifications
Idle == hpc = "get"

\* C1: the notifications the handler gets are, in order, those the watcher
\* put (got ones followed by the queued ones are exactly the put ones), and
\* the handler gets a notification only after the handling of the previous
\* one has ended.
C1_FifoSequential ==
  /\ started \o queue = enqueued
  /\ IsPrefix(Handled, started)
  /\ Len(started) - Len(results) \in {0, 1}
  /\ Idle => Len(started) = Len(results)

C1_Witness ==
  /\ Len(results) >= 2
  /\ hpc = "commit"
  /\ Len(queue) >= 1
  /\ queue[1] # cur

\* the number of DONE_INITIAL among the notifications handled
NumDone == Cardinality({i \in 1..Len(results) : results[i].n.type = DONE_INITIAL})

\* the handler has just handled the DONE_INITIAL of a listing
JustSynced ==
  /\ Idle
  /\ Len(results) > 0
  /\ results[Len(results)].n.type = DONE_INITIAL

\* C2: once the handler has handled, without failure, a full listing up to
\* its DONE_INITIAL, a snapshot file exists exactly for the listed pods.
C2_MirrorAfterSync ==
  (JustSynced /\ faults = 0) =>
    \A id \in Ids : (PathOf(id) \in DOMAIN tree) <=> (id \in syncs[NumDone])

\* C3: from an empty store and with no failure injected, between two
\* notifications the file of an identity exists iff the last notification
\* handled for it was ADDED or MODIFIED.
C3_ExistsIffLastUpdate ==
  (Idle /\ faults = 0 /\ DOMAIN initTree = {}) =>
    \A id \in Ids :
      (PathOf(id) \in DOMAIN tree) <=>
        /\ PositionsOf(id) # {}
        /\ results[Max(PositionsOf(id))].n.type \in {ADDED, MODIFIED}

C3_Witness ==
  /\ Idle /\ faults = 0 /\ DOMAIN initTree = {}
  /\ \E id \in Ids :
       /\ UpdatesOf(id) # {}
       /\ results[Max(PositionsOf(id))].n.type = DELETED
       /\ PathOf(id) \notin DOMAIN tree
  /\ \E id \in Ids :
       /\ PositionsOf(id) # {}
       /\ results[Max(PositionsOf(id))].n.type = ADDED
       /\ PathOf(id) \in DOMAIN tree

SameUpdateAgain(i, j) ==
  /\ i < j
  /\ \E id \in Ids :
       /\ i \in UpdatesOf(id) /\ j \in UpdatesOf(id)
       /\ results[i].ok
       /\ Snapshot(results[j].n.pod) = Snapshot(results[i].n.pod)
       /\ \A k \in UpdatesOf(id) : ~(i < k /\ k < j /\ results[k].ok)

\* no DELETED for the identity of results[i] was handled between i and j
NoDeleteBetween(i, j) ==
  \A id \in Ids : \A k \in PositionsOf(id) :
    (i \in PositionsOf(id) /\ i < k /\ k < j) => results[k].n.type # DELETED

\* the handling recorded in r left the file at path as it was after q,
\* appended no commit and was not reported as a failure
WasNoOp(q, r, path) ==
  /\ r.ok
  /\ r.nAfter = r.nBefore
  /\ r.rc = GitNothingToCommit
  /\ path \in DOMAIN r.treeAfter /\ path \in DOMAIN q.treeAfter
  /\ r.treeAfter[path] = q.treeAfter[path]
  /\ path \in DOMAIN r.treeBefore /\ r.treeBefore[path] = r.treeAfter[path]

C6_FaultIsolation == hpc # "dead"

\* C7: a DELETED for an identity whose file does not exist is handled
\* without error: handle returns, nothing is removed, and add -A and the
\* commit are run.
C7_DeleteAbsentIsNoError ==
  \A i \in 1..Len(results) :
    (/\ results[i].n.type = DELETED
     /\ \E id \in Ids : IsFor(results[i].n, id)
     /\ FilePath(results[i].n.pod) \notin DOMAIN results[i].treeBefore) =>
       /\ results[i].ok
       /\ results[i].treeAfter = results[i].treeBefore
       /\ results[i].staged
       /\ results[i].rc # -1

\* C8: when handle returns normally for a notification other than
\* DONE_INITIAL, either a commit was appended or nothing was staged to
\* commit.
C8_OnlyNoOpTolerated ==
  \A i \in 1..Len(results) :
    (results[i].n.type # DONE_INITIAL /\ results[i].ok) =>
       \/ results[i].nAfter = results[i].nBefore + 1
       \/ ~results[i].dirty

\* C9: once a thread has terminated, the process terminates.
C9_FailFast == WaitAnyReturns ~> exited

C9_Witness == exited /\ hpc = "dead" /\ wpc = "stream"

\* C10: in every state of the running process in which the watcher has a
\* next notification, its put is enabled, whatever the queue holds and
\* wherever the handler is.
C10_PutNeverBlocks ==
  /\ (~exited /\ wpc = "stream" /\ pending # << >>) => ENABLED WatcherPut
  /\ (~exited /\ wpc = "stream" /\ pending = << >>
      /\ Len(enqueued) < MaxEvents) => ENABLED WatcherWatch

C10_Witness ==
  /\ ~exited /\ wpc = "stream"
  /\ Len(queue) >= 2
  /\ hpc = "commit"
  /\ pending # << >>

\* C11: handling DONE_INITIAL changes no file, stages nothing, attempts no
\* commit and raises nothing: the step that handles it leaves the working
\* tree, the index, HEAD and the commit log as they are and ends the handling
\* as a success, wherever in the stream the sentinel is
HandlesSentinel == hpc = "handle" /\ cur.type = DONE_INITIAL
C11_SentinelFrame ==
  [][HandlesSentinel =>
       /\ UNCHANGED storeVars
       /\ hpc' \in {"handle", "get"}
       /\ hpc' = "get" =>
            /\ Len(results') = Len(results) + 1
            /\ LET r == results'[Len(results')]
               IN /\ r.n = DoneInitial /\ r.ok
                  /\ ~r.staged /\ r.rc = -1
                  /\ r.treeBefore = r.treeAfter /\ r.nBefore = r.nAfter]_vars
\* the sentinel was handled twice, the second time after a pod notification
C11_Witness ==
  \E i, j, k \in 1..Len(results) :
    /\ i < j /\ j < k
    /\ results[i].n = DoneInitial /\ results[k].n = DoneInitial
    /\ results[j].n.type = ADDED /\ results[j].nAfter > results[j].nBefore

\* C12: no file of the working tree, of the index or of the committed tree
\* has a metadata.managedFields line, whether the pod of the notification
\* had the attribute set or not
HasManagedFields(text) ==
  \E i \in 1..Len(text) : text[i][1] = "  managedFields"
Sanitized(t) == \A p \in DOMAIN t : ~HasManagedFields(t[p])
C12_NoManagedFields == Sanitized(tree) /\ Sanitized(index) /\ Sanitized(head)
\* a pod with managedFields set and a pod without it have both been written
\* and committed
C12_Witness ==
  \E i, j \in 1..Len(results) :
    /\ results[i].n.type \in {ADDED, MODIFIED} /\ results[i].ok
    /\ results[j].n.type \in {ADDED, MODIFIED} /\ results[j].ok
    /\ results[i].n.pod.metadata.managedFields = "mf1"
    /\ results[j].n.pod.metadata.managedFields = NoneStr
    /\ results[i].rc = GitOk /\ results[j].rc = GitOk
    /\ FilePath(results[i].n.pod) \in DOMAIN head
    /\ FilePath(results[i].n.pod) \in DOMAIN tree
    /\ FilePath(results[j].n.pod) \in DOMAIN head

\* C13: the commit log only grows: start-up keeps the log of an existing
\* repository, every step leaves the log as it is or appends one commit to
\* it, a commit is appended only while a pod notification is handled, its
\* message is '<KIND> <namespace>/<name>' of that notification, and one
\* handling appends at most one commit
StartLogKept == IsPrefix(InitCommits(initTree), commits)
OneCommitPerHandling ==
  /\ hpc \in {"handle", "add", "commit", "except"} =>
       Len(commits) <= att.nBefore + 1
  /\ \A i \in 1..Len(results) :
       /\ results[i].nAfter \in {results[i].nBefore, results[i].nBefore + 1}
       /\ results[i].n.type = DONE_INITIAL =>
            results[i].nAfter = results[i].nBefore
CommitStep ==
  \/ commits' = commits
  \/ /\ hpc = "commit" /\ cur.type \in {ADDED, MODIFIED, DELETED}
     /\ Len(commits') = Len(commits) + 1
     /\ IsPrefix(commits, commits')
     /\ commits'[Len(commits')].message =
          cur.type \o " " \o IdOf(cur.pod)[1] \o "/" \o IdOf(cur.pod)[2]
C13_AppendOnly ==
  [](StartLogKept /\ OneCommitPerHandling) /\ [][CommitStep]_vars
\* on an existing repository with a commit log, two handlings have each
\* appended a commit
C13_Witness ==
  /\ InitCommits(initTree) # << >>
  /\ Len(commits) >= Len(InitCommits(initTree)) + 2
  /\ \E i, j \in 1..Len(results) :
       /\ i < j
       /\ results[i].nAfter = results[i].nBefore + 1
       /\ results[j].nAfter = results[j].nBefore + 1
       /\ results[i].n.type # results[j].n.type

\* C14: under weak fairness of the handler thread, the k-th notification the
\* watcher has put on the queue is eventually taken off it and handed to
\* handle(), however the handling of the notifications before it ended,
\* unless the watcher thread has ended and with it the process
C14_EveryEnqueuedHandled ==
  \A k \in 1..MaxEvents :
    (Len(enqueued) >= k) ~> (Len(started) >= k \/ wpc = "dead")

\* C15: a handling that ended in the except clause has left no trace: the
\* working tree and the commit log are as they were when the notification
\* was taken off the queue, and no change is left staged in the index
C15_FailedEventLeavesNoTrace ==
  \A i \in 1..Len(results) :
    ~results[i].ok =>
      /\ results[i].treeAfter = results[i].treeBefore
      /\ results[i].nAfter = results[i].nBefore
      /\ ~(results[i].staged /\ results[i].dirty)

\* C16: a commit recorded while the notification of a pod is handled changes
\* no path but the file of that pod, whatever was handled before and
\* whichever handlings failed
C16_CommitOnlyOwnPath ==
  [][commits' # commits =>
       commits'[Len(commits')].paths \subseteq {FilePath(cur.pod)}]_vars

\* C17: the working tree changes only in a step of the handler thread that
\* handles an ADDED, MODIFIED or DELETED notification, never in a step of
\* the watcher or of the queue, and such a step creates, overwrites or
\* removes no file but <namespace>/<name>.yaml of the pod of the notification
C17_TreeFrame ==
  [][tree' # tree =>
       /\ hpc = "handle" /\ cur.type \in {ADDED, MODIFIED, DELETED}
       /\ UNCHANGED <<wpc, pending, queue, enqueued>>
       /\ ~RaisesAttributeError(cur.pod)
       /\ ChangedPaths(tree, tree') \subseteq {PathOf(IdOf(cur.pod))}]_vars
\* a file was removed, and a file written, while the file of another pod
\* stayed in the working tree as it was
C17_Witness ==
  \E i, j \in 1..Len(results) :
    /\ results[i].n.type \in {ADDED, MODIFIED} /\ results[j].n.type = DELETED
    /\ results[i].ok /\ results[j].ok
    /\ \E p \in DOMAIN results[i].treeBefore :
         /\ p # FilePath(results[i].n.pod)
         /\ p \in DOMAIN results[i].treeAfter
         /\ results[i].treeAfter # results[i].treeBefore
    /\ \E p \in DOMAIN results[j].treeAfter :
         /\ p # FilePath(results[j].n.pod)
         /\ FilePath(results[j].n.pod) \in DOMAIN results[j].treeBefore
         /\ FilePath(results[j].n.pod) \notin DOMAIN results[j].treeAfter

====
